---- MODULE Spec2Model ----
(***************************************************************************)
(* Model of searchengine.py: the indexer (create_index and its helpers)    *)
(* and the query engine (search, find_intersection).                       *)
(*                                                                         *)
(* A Python str is a sequence of one-character strings, a Python list is a *)
(* sequence, and a Python dict is a function whose DOMAIN is its key set.  *)
(***************************************************************************)
EXTENDS Integers, Sequences, FiniteSets, TLC

VARIABLES fs, index, file_titles, call, outcome

vars == <<fs, index, file_titles, call, outcome>>

(***************************************************************************)
(* Bounds of the model.                                                    *)
(***************************************************************************)
\* longest list of file names handed to one create_index call
MaxFiles == 2
\* most terms in one query
MaxTerms == 3

(***************************************************************************)
(* Characters, strings and dicts.                                          *)
(***************************************************************************)
Range(s) == {s[i] : i \in 1..Len(s)}

\* the characters str.strip() and str.split() treat as white space
Whitespace == {" ", "\t", "\n"}

\* string.punctuation, but for the backquote, which a TLA+ string cannot hold
\* (no text of the model contains one)
Punctuation ==
    {"!", "\"", "#", "$", "%", "&", "'", "(", ")", "*", "+", ",", "-", ".",
     "/", ":", ";", "<", "=", ">", "?", "@", "[", "\\", "]", "^", "_",
     "{", "|", "}", "~"}

UpperCase == <<"A","B","C","D","E","F","G","H","I","J","K","L","M",
               "N","O","P","Q","R","S","T","U","V","W","X","Y","Z">>
LowerCase == <<"a","b","c","d","e","f","g","h","i","j","k","l","m",
               "n","o","p","q","r","s","t","u","v","w","x","y","z">>

\* str.lower() on one character
LowerChar(c) ==
    IF \E i \in 1..Len(UpperCase) : UpperCase[i] = c
    THEN LowerCase[CHOOSE i \in 1..Len(UpperCase) : UpperCase[i] = c]
    ELSE c

\* str.lower()
lower(s) == [i \in 1..Len(s) |-> LowerChar(s[i])]

RECURSIVE lstrip(_, _)
lstrip(s, chars) ==
    IF s # <<>> /\ Head(s) \in chars THEN lstrip(Tail(s), chars) ELSE s

RECURSIVE rstrip(_, _)
rstrip(s, chars) ==
    IF s # <<>> /\ s[Len(s)] \in chars
    THEN rstrip(SubSeq(s, 1, Len(s) - 1), chars)
    ELSE s

\* str.strip(chars)
strip(s, chars) == rstrip(lstrip(s, chars), chars)

\* position of the first character of s that is in chars, Len(s) + 1 if none
FirstIn(s, chars) ==
    CHOOSE n \in 1..(Len(s) + 1) :
        /\ (n = Len(s) + 1 \/ s[n] \in chars)
        /\ \A j \in 1..(n - 1) : s[j] \notin chars

\* str.split(): the maximal runs of non-white-space characters
RECURSIVE split(_)
split(s) ==
    LET t == lstrip(s, Whitespace)
    IN  IF t = <<>> THEN <<>>
        ELSE LET n == FirstIn(t, Whitespace)
             IN  <<SubSeq(t, 1, n - 1)>> \o split(SubSeq(t, n, Len(t)))

\* iterating a text file: the lines, each with its terminator when it has one
RECURSIVE readlines(_)
readlines(text) ==
    IF text = <<>> THEN <<>>
    ELSE LET n == FirstIn(text, {"\n"})
         IN  IF n > Len(text) THEN <<text>>
             ELSE <<SubSeq(text, 1, n)>>
                      \o readlines(SubSeq(text, n + 1, Len(text)))

\* s[:-1]
DropLast(s) == SubSeq(s, 1, Len(s) - 1)

\* {}
EmptyDict == [k \in {} |-> <<>>]

\* d[k] = v
Put(d, k, v) == [x \in (DOMAIN d) \cup {k} |-> IF x = k THEN v ELSE d[x]]

(***************************************************************************)
(* The indexer.                                                            *)
(***************************************************************************)
\* what a file name stands for: a text open() can read, or nothing it can open
File(text) == [exists |-> TRUE, text |-> text]
NoFile == [exists |-> FALSE, text |-> <<>>]

\* make_list_of_words(line)
make_list_of_words(line) == split(strip(line, Whitespace))

\* clean_word(word)
clean_word(word) == strip(lower(strip(word, Whitespace)), Punctuation)

\* the mutant of add_term_to_index that appends without the membership test
add_term_always(idx, term, file) ==
    IF term \notin DOMAIN idx
    THEN Put(idx, term, <<file>>)
    ELSE Put(idx, term, Append(idx[term], file))

\* the mutant of add_term_to_index that puts a new document first in the list
add_term_front(idx, term, file) ==
    IF term \notin DOMAIN idx
    THEN Put(idx, term, <<file>>)
    ELSE IF file \notin Range(idx[term])
         THEN Put(idx, term, <<file>> \o idx[term])
         ELSE idx

\* add_term_to_index(index, term, file)
add_term_to_index(idx, term, file) ==
    IF term \notin DOMAIN idx
    THEN Put(Put(idx, term, <<>>), term, <<file>>)
    ELSE IF file \notin Range(idx[term])
         THEN Put(idx, term, Append(idx[term], file))
         ELSE idx

\* the loop over the words of one line: clean each, record the non-empty ones
RECURSIVE IndexWords(_, _, _)
IndexWords(idx, words, file) ==
    IF words = <<>> THEN idx
    ELSE LET term == clean_word(Head(words))
         IN  IndexWords(IF term # <<>>
                        THEN add_term_to_index(idx, term, file)
                        ELSE idx,
                        Tail(words), file)

\* the loop over the lines that follow the first one
RECURSIVE IndexLines(_, _, _)
IndexLines(idx, lines, file) ==
    IF lines = <<>> THEN idx
    ELSE IndexLines(IndexWords(idx, make_list_of_words(Head(lines)), file),
                    Tail(lines), file)

\* title = next(f)[:-1]
TitleOf(line) == DropLast(line)

\* if title not in file_titles: file_titles[file] = title
StoreTitle(titles, file, title) ==
    IF title \notin DOMAIN titles THEN Put(titles, file, title) ELSE titles

RECURSIVE create_index(_, _, _, _)

\* the mutant of Propagate that skips the document and goes on with the next
SkipDocument(filenames, idx, titles, files, exception) ==
    create_index(Tail(filenames), idx, titles, files)

\* an exception raised by open(file) or next(f) leaves the loop and the
\* function; index and file_titles stay as the documents before left them
Propagate(filenames, idx, titles, files, exception) ==
    [index |-> idx, file_titles |-> titles, raised |-> exception]

\* create_index(filenames, index, file_titles), over the file system files
create_index(filenames, idx, titles, files) ==
    IF filenames = <<>>
    THEN [index |-> idx, file_titles |-> titles, raised |-> "None"]
    ELSE LET file == Head(filenames)
         IN  IF ~files[file].exists
             THEN Propagate(filenames, idx, titles, files, "FileNotFoundError")
             ELSE LET f == readlines(files[file].text)
                  IN  IF f = <<>>
                      THEN Propagate(filenames, idx, titles, files,
                                     "StopIteration")
                      ELSE LET title == TitleOf(Head(f))
                               words_in_title == make_list_of_words(title)
                               titles1 == StoreTitle(titles, file, title)
                               idx1 == IndexWords(idx, words_in_title, file)
                               idx2 == IndexLines(idx1, Tail(f), file)
                           IN  create_index(Tail(filenames), idx2, titles1,
                                            files)

(***************************************************************************)
(* The query engine.  The local name list_of_files is bound to a list      *)
(* object: one the call made itself (own), or, were it ever bound to one,  *)
(* the list the index stores under key.  A mutation through the name       *)
(* changes the object it is bound to.                                      *)
(***************************************************************************)
\* list_of_files = []
NewList(idx) == [index |-> idx, shared |-> FALSE, key |-> <<>>, own |-> <<>>]

\* the elements of the object list_of_files is bound to
ListOf(h) == IF h.shared THEN h.index[h.key] ELSE h.own

\* the object list_of_files is bound to becomes xs
Mutate(h, xs) ==
    IF h.shared
    THEN [h EXCEPT !.index = Put(h.index, h.key, xs)]
    ELSE [h EXCEPT !.own = xs]

\* the mutant of ExtendFrom that binds the name to the stored list
BindTo(h, term) == [h EXCEPT !.shared = TRUE, !.key = term]

\* list_of_files += index[term]
ExtendFrom(h, term) == Mutate(h, ListOf(h) \o h.index[term])

\* for j in range(n): list_of_files.pop()
RECURSIVE PopTimes(_, _)
PopTimes(h, n) ==
    IF n = 0 THEN h ELSE PopTimes(Mutate(h, DropLast(ListOf(h))), n - 1)

\* list_of_files = xs, a list made by find_intersection
Rebind(h, xs) == [h EXCEPT !.shared = FALSE, !.key = <<>>, !.own = xs]

\* the loops of find_intersection, with the list built so far
RECURSIVE Intersect(_, _, _)
Intersect(list1, list2, intersection) ==
    IF list1 = <<>> THEN intersection
    ELSE LET elem == Head(list1)
         IN  Intersect(Tail(list1), list2,
                       IF /\ \E i \in 1..Len(list2) : elem = list2[i]
                          /\ elem \notin Range(intersection)
                       THEN Append(intersection, elem)
                       ELSE intersection)

\* the mutant of find_intersection whose inner loop stops one element early
find_intersection_short(list1, list2) ==
    Intersect(list1, DropLast(list2), <<>>)

\* find_intersection(list1, list2)
find_intersection(list1, list2) == Intersect(list1, list2, <<>>)

\* for i in range(len(words) - 1), from the i-th round on (i counts from 1)
RECURSIVE NextTerms(_, _, _)
NextTerms(h, words, i) ==
    IF i > Len(words) - 1 THEN h
    ELSE LET next_term == words[i + 1]
         IN  NextTerms(IF next_term \notin DOMAIN h.index
                       THEN PopTimes(h, Len(ListOf(h)))
                       ELSE Rebind(h, find_intersection(ListOf(h),
                                                        h.index[next_term])),
                       words, i + 1)

\* search(index, query): the list returned, the exception raised and the
\* index as the call leaves it
search(idx, query) ==
    LET words == split(query)
    IN  IF words = <<>>
        THEN [index |-> idx, result |-> <<>>, raised |-> "IndexError"]
        ELSE LET first_term == words[1]
                 h0 == NewList(idx)
                 h1 == IF Len(words) = 1 /\ words[1] \in DOMAIN h0.index
                       THEN ExtendFrom(h0, words[1])
                       ELSE h0
                 h2 == IF Len(words) > 1
                       THEN NextTerms(IF first_term \in DOMAIN h1.index
                                      THEN ExtendFrom(h1, first_term)
                                      ELSE h1,
                                      words, 1)
                       ELSE h1
             IN  [index |-> h2.index, result |-> ListOf(h2), raised |-> "None"]

(***************************************************************************)
(* The state machine.  fs is the file system create_index reads, index and *)
(* file_titles are the two dicts main() makes and hands to every call,     *)
(* call is the last call made and outcome what it returned or raised.      *)
(***************************************************************************)
\* the document identifiers (file names)
DocIds == {<<"a">>, <<"b">>}

\* what a file may hold
Texts ==
    { <<"a", "\n">>,                                        \* one line, a file name
      <<"x">>,                                              \* one line, no terminator
      <<>>,                                                 \* no line at all
      <<"X", ",", "\n", "x", " ", "a", " ", "-", "\n">> }   \* a title and a body

\* the terms a query is made of
QueryTerms == {<<"a">>, <<"x">>}

\* " ".join(words)
RECURSIVE Join(_)
Join(words) ==
    IF words = <<>> THEN <<>>
    ELSE IF Len(words) = 1 THEN words[1]
    ELSE words[1] \o <<" ">> \o Join(Tail(words))

\* the lists of at most n elements of S
SeqsUpTo(S, n) == UNION {[1..k -> S] : k \in 0..n}

\* what the file system may hold under a file name
Files == {File(text) : text \in Texts} \cup {NoFile}

\* the queries: the empty one, a blank one, and those of up to MaxTerms terms
Queries == {Join(ws) : ws \in SeqsUpTo(QueryTerms, MaxTerms)} \cup {<<" ">>}

NoCall == [op |-> "none", filenames |-> <<>>, query |-> <<>>]
NoOutcome == [raised |-> "None", result |-> <<>>]

Init ==
    /\ fs \in [DocIds -> Files]
    /\ index = EmptyDict
    /\ file_titles = EmptyDict
    /\ call = NoCall
    /\ outcome = NoOutcome

\* a document is written, replaced or removed between two calls
WriteFile ==
    \E d \in DocIds : \E file \in Files :
        /\ fs[d] # file
        /\ fs' = [fs EXCEPT ![d] = file]
        /\ call' = NoCall
        /\ outcome' = NoOutcome
        /\ UNCHANGED <<index, file_titles>>

\* create_index(filenames, index, file_titles)
CreateIndex ==
    \E filenames \in SeqsUpTo(DocIds, MaxFiles) :
        LET r == create_index(filenames, index, file_titles, fs)
        IN  /\ index' = r.index
            /\ file_titles' = r.file_titles
            /\ call' = [op |-> "create_index", filenames |-> filenames,
                        query |-> <<>>]
            /\ outcome' = [raised |-> r.raised, result |-> <<>>]
            /\ UNCHANGED fs

\* results = search(index, query)
Search ==
    \E query \in Queries :
        LET r == search(index, query)
        IN  /\ index' = r.index
            /\ call' = [op |-> "search", filenames |-> <<>>, query |-> query]
            /\ outcome' = [raised |-> r.raised, result |-> r.result]
            /\ UNCHANGED <<fs, file_titles>>

\* the indexer, over documents that change between the calls
Next == WriteFile \/ CreateIndex

Spec == Init /\ [][Next]_vars

\* the query engine, over the indexes the indexer builds from any documents
NextSearch == CreateIndex \/ Search

SearchSpec == Init /\ [][NextSearch]_vars

(***************************************************************************)
(* Vocabulary of the properties.                                           *)
(***************************************************************************)
\* the terms of a query, as search splits it
TermsOfQuery(query) == split(query)

\* the last call was search and it returned
SearchReturned == call.op = "search" /\ outcome.raised = "None"

\* the last call was create_index
Indexed == call.op = "create_index"

\* a document that cannot be opened or has no line
Unreadable(d) == ~fs[d].exists \/ fs[d].text = <<>>

\* the position in filenames of the first such document, Len + 1 if none
FirstUnreadable(filenames) ==
    CHOOSE k \in 1..(Len(filenames) + 1) :
        /\ (k = Len(filenames) + 1 \/ Unreadable(filenames[k]))
        /\ \A j \in 1..(k - 1) : ~Unreadable(filenames[j])

\* the documents of filenames that come before the first unreadable one
Processed(filenames) ==
    {filenames[i] : i \in 1..(FirstUnreadable(filenames) - 1)}

\* the non-empty normalized terms of the tokens of the lines of a text
TermsOfText(text) ==
    UNION { {clean_word(w) : w \in Range(split(line))} :
            line \in Range(readlines(text)) } \ {<<>>}

\* the first line of a text without its line terminator
FirstLine(text) ==
    LET line == Head(readlines(text))
    IN  IF line[Len(line)] = "\n" THEN DropLast(line) ELSE line

\* filenames without the later occurrences of a name
RECURSIVE Dedup(_)
Dedup(filenames) ==
    IF filenames = <<>> THEN <<>>
    ELSE LET rest == Dedup(DropLast(filenames))
             last == filenames[Len(filenames)]
         IN  IF last \in Range(rest) THEN rest ELSE Append(rest, last)

\* every document an index lists has a title
Consistent(idx, titles) ==
    \A t \in DOMAIN idx : \A d \in Range(idx[t]) : d \in DOMAIN titles

\* no empty term, no empty list, no document twice in a list
WellFormed(idx) ==
    /\ <<>> \notin DOMAIN idx
    /\ \A t \in DOMAIN idx :
          /\ idx[t] # <<>>
          /\ \A i, j \in 1..Len(idx[t]) : idx[t][i] = idx[t][j] => i = j

\* every list of old is the beginning of the list new has for the same term
AppendOnly(old, new) ==
    \A t \in DOMAIN old :
        /\ t \in DOMAIN new
        /\ Len(old[t]) <= Len(new[t])
        /\ SubSeq(new[t], 1, Len(old[t])) = old[t]

(***************************************************************************)
(* The query engine (SearchSpec).                                          *)
(***************************************************************************)
\* C1: when search returns for a query of terms T1..Tn (n >= 1), a document
\* is in the result exactly when every Ti is a key of the index and the
\* document is in the list of every Ti, which is exactly when it is in the
\* result of search for every single Ti.
C1_ConjunctiveCorrectness ==
    SearchReturned =>
        LET T == TermsOfQuery(call.query)
        IN  \A D \in DocIds \cup Range(outcome.result) :
                /\ D \in Range(outcome.result)
                     <=> \A i \in 1..Len(T) :
                            T[i] \in DOMAIN index /\ D \in Range(index[T[i]])
                /\ D \in Range(outcome.result)
                     <=> \A i \in 1..Len(T) :
                            D \in Range(search(index, T[i]).result)

\* a query of two or more terms, all of them keys, has returned some but not
\* all of the documents of its first term
C1_Witness ==
    /\ SearchReturned
    /\ Len(TermsOfQuery(call.query)) >= 2
    /\ outcome.result # <<>>
    /\ \E D \in Range(index[TermsOfQuery(call.query)[1]]) :
          D \notin Range(outcome.result)

\* C2: search with a query of zero terms (empty or blank) returns the empty
\* list and raises nothing.
C2_EmptyQueryReturnsEmpty ==
    (call.op = "search" /\ TermsOfQuery(call.query) = <<>>) =>
        (outcome.raised = "None" /\ outcome.result = <<>>)

\* C10: a search with a query of at least one term leaves the index as it
\* was: the same keys, and under each key the same list.
C10_SearchLeavesIndex ==
    [][(call'.op = "search" /\ TermsOfQuery(call'.query) # <<>>)
           => index' = index]_vars

\* a query whose first term is a key and whose second is not has returned:
\* the running result was filled from the index and then cleared
C10_Witness ==
    /\ SearchReturned
    /\ Len(TermsOfQuery(call.query)) >= 2
    /\ TermsOfQuery(call.query)[1] \in DOMAIN index
    /\ TermsOfQuery(call.query)[2] \notin DOMAIN index
    /\ outcome.result = <<>>

(***************************************************************************)
(* The indexer (Spec).                                                     *)
(***************************************************************************)
\* C3: after create_index has processed a document D, search for any
\* non-empty normalized term of a token of any line of D returns D.
C3_TermMembership ==
    Indexed =>
        \A D \in Processed(call.filenames) :
            \A T \in TermsOfText(fs[D].text) :
                D \in Range(search(index, T).result)

\* C4: a title, once in file_titles, is there for good: no later call
\* removes or changes it.
C4_FirstTitleWins ==
    [][\A d \in DOMAIN file_titles :
           d \in DOMAIN file_titles' /\ file_titles'[d] = file_titles[d]]_vars

\* C5: every document that a list of the index holds is a key of
\* file_titles.  (A call that fails leaves what a successful call over the
\* documents before the failing one leaves, C9, so the reachable states are
\* those that successful calls alone reach.)
C5_TitlesCoverIndex == Consistent(index, file_titles)

\* C6: a create_index call leaves index and file_titles as a second call
\* with the same file names over the same files would leave them again, and
\* as a call with each file name given once would have left them.
C6_Idempotent ==
    [][call'.op = "create_index" =>
           LET S == call'.filenames
               twice == create_index(S, index', file_titles', fs')
               single == create_index(Dedup(S), index, file_titles, fs)
           IN  /\ twice.index = index'
               /\ twice.file_titles = file_titles'
               /\ single.index = index'
               /\ single.file_titles = file_titles']_vars

\* a call that names one readable document twice has filled the index
C6_Witness ==
    /\ Indexed
    /\ outcome.raised = "None"
    /\ Len(call.filenames) >= 2
    /\ call.filenames[1] = call.filenames[2]
    /\ \E t \in DOMAIN index : call.filenames[1] \in Range(index[t])

\* C7: after every step the index has no empty term and no empty list, no
\* list holds a document twice, and every list begins with the list the
\* term had before the step (documents stay in the order of their first
\* recording).
C7_IndexWellFormed ==
    [][WellFormed(index') /\ AppendOnly(index, index')]_vars

\* a term that occurs twice in a document lists that document and another
C7_Witness ==
    /\ Indexed
    /\ \E d \in DocIds :
          /\ fs[d].exists
          /\ \E i, j \in 1..Len(split(fs[d].text)) :
                /\ i # j
                /\ clean_word(split(fs[d].text)[i])
                     = clean_word(split(fs[d].text)[j])
                /\ clean_word(split(fs[d].text)[i]) \in DOMAIN index
                /\ d \in Range(index[clean_word(split(fs[d].text)[i])])
                /\ Len(index[clean_word(split(fs[d].text)[i])]) >= 2

\* C8: a title that a create_index call puts into file_titles, or changes
\* there, is the first line of the document without its line terminator.
C8_StoredTitle ==
    [][call'.op = "create_index" =>
           \A d \in DOMAIN file_titles' :
               (d \notin DOMAIN file_titles
                    \/ file_titles'[d] # file_titles[d])
                   => file_titles'[d] = FirstLine(fs[d].text)]_vars

\* C9: a create_index call whose k-th document is the first unreadable one
\* raises, and leaves index and file_titles as a call with the first k - 1
\* file names, which raises nothing, leaves them.
C9_FailureKeepsPrefix ==
    [][(call'.op = "create_index"
           /\ FirstUnreadable(call'.filenames) <= Len(call'.filenames))
        => LET S == call'.filenames
               k == FirstUnreadable(S)
               before == create_index(SubSeq(S, 1, k - 1), index,
                                      file_titles, fs)
           IN  /\ outcome'.raised = IF fs[S[k]].exists
                                    THEN "StopIteration"
                                    ELSE "FileNotFoundError"
               /\ before.raised = "None"
               /\ index' = before.index
               /\ file_titles' = before.file_titles]_vars

\* a call has raised on its second document and kept the terms and the
\* title of its first
C9_Witness ==
    /\ Indexed
    /\ outcome.raised # "None"
    /\ FirstUnreadable(call.filenames) = 2
    /\ call.filenames[1] \in DOMAIN file_titles
    /\ \E t \in DOMAIN index : call.filenames[1] \in Range(index[t])

====
